---- MODULE Spec2Model ----
(***************************************************************************)
(* Model of digest's transcript API (src/src/digest/api.py): the          *)
(* cursor/budget/overlap extraction engine, the content flattener and the *)
(* watermark store.                                                        *)
(*                                                                         *)
(* A transcript file is a sequence of raw lines.  A raw line is either    *)
(* text that json.loads rejects, or a JSON value.  JSON values are tagged *)
(* records:                                                                *)
(*   [t |-> "null"]  [t |-> "bool", b |-> TRUE]  [t |-> "num"]            *)
(*   [t |-> "str", s |-> "..."]   [t |-> "list", items |-> <<...>>]       *)
(*   [t |-> "dict", f |-> [key |-> value, ...]]                           *)
(* Optional integers (cursor, next_cursor: int | None) are <<>> for None  *)
(* and <<n>> for the integer n.                                            *)
(***************************************************************************)
EXTENDS Integers, Sequences, FiniteSets, TLC

VARIABLES
    raw,          \* raw_dir: session id -> transcript lines (DOMAIN = files that exist)
    processed,    \* processed_dir: session id -> stored lineNumber (DOMAIN = files that exist)
    cursor,       \* the paging caller's cursor variable: <<n>>, or <<>> once next_cursor is None
    char_budget,  \* the paging caller's char budget
    first_cursor, \* cursor of the first call of the chain (0 before the first call)
    arg,          \* the cursor the last extract call was given (0 before the first call)
    result,       \* what the last extract call returned
    prev,         \* what the call before it returned
    seen,         \* line numbers whose formatted line some call of the chain returned
    tick,         \* parity of the number of calls made: every call is a step,
                  \* also one that returns what the call before it returned
    call,         \* the last API call and its arguments ([op |-> "none"] after a write
                  \* made around the API)
    dirs          \* which of the directories "raw" and "processed" exist

vars == <<raw, processed, cursor, char_budget, first_cursor, arg, result, prev, seen, tick,
          call, dirs>>

-----------------------------------------------------------------------------
(* Configuration, api.py:13-15 *)

DEFAULT_CHAR_BUDGET == 50000

LINE_OVERLAP == 10

-----------------------------------------------------------------------------
(* Bounds of the model *)

MaxLines == 12   \* longest transcript

MaxVaried == 1   \* lines of a transcript that are not the plain short user message

-----------------------------------------------------------------------------
(* JSON values *)

None == <<>>

Some(n) == <<n>>

JNull == [t |-> "null"]

JNum == [t |-> "num"]

JBool(b) == [t |-> "bool", b |-> b]

JStr(s) == [t |-> "str", s |-> s]

JList(items) == [t |-> "list", items |-> items]

JDict(f) == [t |-> "dict", f |-> f]

Garbage == [t |-> "garbage"]   \* a line json.loads raises JSONDecodeError on

\* dict.get(key, default)
Get(d, key, default) == IF key \in DOMAIN d.f THEN d.f[key] ELSE default

\* Python truthiness of a JSON value (`if text:`, `if is_error`)
Truthy(v) ==
    CASE v.t = "null" -> FALSE
      [] v.t = "bool" -> v.b
      [] v.t = "num"  -> TRUE      \* the model's numbers are non-zero
      [] v.t = "str"  -> v.s # ""
      [] v.t = "list" -> v.items # <<>>
      [] v.t = "dict" -> DOMAIN v.f # {}
      [] OTHER -> FALSE

RECURSIVE JoinStr(_, _)
\* sep.join(parts) for a sequence of strings
JoinStr(parts, sep) ==
    IF parts = <<>> THEN ""
    ELSE IF Len(parts) = 1 THEN parts[1]
    ELSE parts[1] \o sep \o JoinStr(Tail(parts), sep)

\* [p for p in parts if p]
NonEmpty(parts) == SelectSeq(parts, LAMBDA p : p # "")

\* str(v) as an f-string renders a JSON value (strings, None, booleans and the number 1)
PyStr(v) ==
    CASE v.t = "str"  -> v.s
      [] v.t = "null" -> "None"
      [] v.t = "bool" -> IF v.b THEN "True" ELSE "False"
      [] v.t = "num"  -> "1"

RECURSIVE Dumps(_)
\* json.dumps(v) with the default separators; dicts of at most one key
Dumps(v) ==
    CASE v.t = "null" -> "null"
      [] v.t = "bool" -> IF v.b THEN "true" ELSE "false"
      [] v.t = "num"  -> "1"
      [] v.t = "str"  -> "\"" \o v.s \o "\""
      [] v.t = "list" ->
            "[" \o JoinStr([i \in 1..Len(v.items) |-> Dumps(v.items[i])], ", ") \o "]"
      [] v.t = "dict" /\ DOMAIN v.f = {} -> "{}"
      [] v.t = "dict" /\ Cardinality(DOMAIN v.f) = 1 ->
            LET k == CHOOSE x \in DOMAIN v.f : TRUE
            IN  "{\"" \o k \o "\": " \o Dumps(v.f[k]) \o "}"

-----------------------------------------------------------------------------
(* Content flattener, api.py:98-146.  A flattener outcome is              *)
(*   [k |-> "none"]            the Python value None                      *)
(*   [k |-> "str", s |-> ...]  a string                                   *)
(*   [k |-> "raise"]           an exception (AttributeError, TypeError)   *)
(***************************************************************************)

RNone == [k |-> "none"]

RStr(s) == [k |-> "str", s |-> s]

RRaise == [k |-> "raise"]

IsStr(v, s) == v.t = "str" /\ v.s = s

\* `' '.join(texts)` under the prefix, api.py:135: a TypeError when some
\* `c.get("text", "")` is not a string
JoinTexts(prefix, texts) ==
    IF \E i \in 1..Len(texts) : texts[i].t # "str" THEN RRaise
    ELSE RStr(prefix \o ": " \o JoinStr([i \in 1..Len(texts) |-> texts[i].s], " "))

\* `[c.get("text", "") for c in tool_content if isinstance(c, dict)]`, api.py:130-134
TextsOf(dicts) == [i \in 1..Len(dicts) |-> Get(dicts[i], "text", JStr(""))]

\* the body of the tool_result branch once prefix is known, api.py:127-137
RenderToolContent(prefix, tool_content) ==
    CASE tool_content.t = "str" -> RStr(prefix \o ": " \o tool_content.s)
      [] tool_content.t = "list" ->
            JoinTexts(prefix, TextsOf(SelectSeq(tool_content.items, LAMBDA c : c.t = "dict")))
      [] OTHER -> RStr(prefix)

\* `prefix = "[TOOL ERROR]" if is_error else "[TOOL RESULT]"`, api.py:126
ToolPrefix(is_error) == IF Truthy(is_error) THEN "[TOOL ERROR]" ELSE "[TOOL RESULT]"

\* the tool_result branch, api.py:123-137
RenderToolResult(item) ==
    RenderToolContent(ToolPrefix(Get(item, "is_error", JBool(FALSE))),
                      Get(item, "content", JStr("")))

\* the text branch, api.py:115-118; a truthy non-string makes "\n".join raise
RenderText(text) ==
    IF ~Truthy(text) THEN RNone
    ELSE IF text.t = "str" THEN RStr(text.s)
    ELSE RRaise

\* the tool_use branch, api.py:119-122
RenderToolUse(name, input) ==
    RStr("[TOOL USE: " \o PyStr(name) \o "]: " \o Dumps(input))

\* Mutant: the thinking marker is written also for an empty text
RenderThinking_Always(thinking_text) == RStr("[THINKING]: " \o PyStr(thinking_text))

\* the thinking branch, api.py:138-141
RenderThinking(thinking_text) ==
    IF ~Truthy(thinking_text) THEN RNone
    ELSE RStr("[THINKING]: " \o PyStr(thinking_text))

\* Mutant: a block of no known type is rendered as a text block
RenderBlock_TextFallback(item, item_type) ==
    CASE IsStr(item_type, "tool_use") ->
            RenderToolUse(Get(item, "name", JStr("unknown")), Get(item, "input", JDict(<<>>)))
      [] IsStr(item_type, "tool_result") -> RenderToolResult(item)
      [] IsStr(item_type, "thinking") -> RenderThinking(Get(item, "thinking", JStr("")))
      [] OTHER -> RenderText(Get(item, "text", JStr("")))

\* the dispatch on item.get("type"), api.py:114-141
RenderBlock(item, item_type) ==
    CASE IsStr(item_type, "text") -> RenderText(Get(item, "text", JStr("")))
      [] IsStr(item_type, "tool_use") ->
            RenderToolUse(Get(item, "name", JStr("unknown")), Get(item, "input", JDict(<<>>)))
      [] IsStr(item_type, "tool_result") -> RenderToolResult(item)
      [] IsStr(item_type, "thinking") -> RenderThinking(Get(item, "thinking", JStr("")))
      [] OTHER -> RNone

\* one iteration of `for item in content`, api.py:110-141: what it appends to parts
RenderItem(item) ==
    CASE item.t = "str" -> RStr(item.s)
      [] item.t = "dict" -> RenderBlock(item, Get(item, "type", JNull))
      [] OTHER -> RNone

\* `return result if result else None`, api.py:144
OrNone(s) == IF s # "" THEN RStr(s) ELSE RNone

StrsOf(kept) == [i \in 1..Len(kept) |-> kept[i].s]

\* `result = "\n".join(p for p in parts if p)`, api.py:143-144
JoinParts(rendered) ==
    IF \E i \in 1..Len(rendered) : rendered[i].k = "raise" THEN RRaise
    ELSE OrNone(JoinStr(NonEmpty(StrsOf(SelectSeq(rendered, LAMBDA r : r.k = "str"))), "\n"))

\* the dispatch on the type of content, api.py:102-146
FlattenContent(content) ==
    CASE content.t = "null" -> RNone
      [] content.t = "str" -> OrNone(content.s)
      [] content.t = "list" ->
            JoinParts([i \in 1..Len(content.items) |-> RenderItem(content.items[i])])
      [] OTHER -> RNone

\* `.get("content")` on message.get("message", {}), api.py:100: AttributeError
\* when that is not a dict
ContentOf(inner) ==
    IF inner.t # "dict" THEN RRaise ELSE FlattenContent(Get(inner, "content", JNull))

\* _extract_message_content(message), api.py:98-146
ExtractMessageContent(message) == ContentOf(Get(message, "message", JDict(<<>>)))

\* msg_type.upper() for the two eligible roles, api.py:250
Upper(msg_type) ==
    CASE msg_type = "user" -> "USER"
      [] msg_type = "assistant" -> "ASSISTANT"

\* `if not content: continue` and `formatted = f"[{msg_type.upper()}]: {content}"`,
\* api.py:247-250
Formatted(msg_type, content) ==
    CASE content.k = "raise" -> RRaise
      [] content.k = "none" -> RNone
      [] OTHER -> RStr("[" \o Upper(msg_type.s) \o "]: " \o content.s)

\* `if msg_type not in ("user", "assistant"): continue`, api.py:242-246
FormatRecord(data, msg_type) ==
    IF ~(IsStr(msg_type, "user") \/ IsStr(msg_type, "assistant")) THEN RNone
    ELSE Formatted(msg_type, ExtractMessageContent(data))

\* The body of the scan loop up to the formatted line, api.py:234-251:
\* RNone when the line is skipped (`continue`), RStr(formatted) when it is
\* eligible, RRaise when the flattener raises.
FormatLine(line) ==
    IF line.t = "garbage" THEN RNone               \* json.JSONDecodeError
    ELSE IF line.t # "dict" THEN RNone             \* not isinstance(data, dict)
    ELSE FormatRecord(line, Get(line, "type", JNull))

-----------------------------------------------------------------------------
(* Extraction engine, api.py:175-277 *)

Max(a, b) == IF a >= b THEN a ELSE b

\* Mutant: the budget test without `and extracted_lines`
BudgetStop_NoFirstLine(total_chars, line_chars, budget, extracted_lines) ==
    total_chars + line_chars > budget

\* Mutant: the budget test on what is already accepted, not counting the new line
BudgetStop_Late(total_chars, line_chars, budget, extracted_lines) ==
    total_chars > budget /\ extracted_lines # <<>>

\* `if total_chars + line_chars > char_budget and extracted_lines`, api.py:254
BudgetStop(total_chars, line_chars, budget, extracted_lines) ==
    total_chars + line_chars > budget /\ extracted_lines # <<>>

\* Mutant: no roll back before the break
RollBack_None(i) == i

\* Mutant: the roll back goes one line too far
RollBack_Two(i) == i - 2

\* `last_line_read = i - 1` before the break, api.py:255
RollBack(i) == i - 1

\* State of the scan loop.  line_nos is a history variable: the line numbers
\* of the entries of extracted_lines, in order.
ScanStart(c) ==
    [extracted_lines |-> <<>>, total_chars |-> 0, last_line_read |-> c - 1,
     line_nos |-> <<>>, raised |-> FALSE]

\* Mutant: a line that is skipped is not counted as read
Visit_Stay(st, i) == st

\* the scan's state after it has visited line i
Visit(st, i) == [st EXCEPT !.last_line_read = i]

\* Mutant: the line's newline is counted with its characters
Accept_CountsNewline(st, i, formatted) ==
    [st EXCEPT !.last_line_read = i,
               !.extracted_lines = Append(@, formatted),
               !.total_chars = @ + Len(formatted) + 1,
               !.line_nos = Append(@, i)]

\* `extracted_lines.append(formatted); total_chars += line_chars`, api.py:259-260
Accept(st, i, formatted) ==
    [st EXCEPT !.last_line_read = i,
               !.extracted_lines = Append(@, formatted),
               !.total_chars = @ + Len(formatted),
               !.line_nos = Append(@, i)]

RECURSIVE ScanFrom(_, _, _, _, _)

\* one iteration of the scan at line i >= cursor, given the line's outcome
ScanLine(lines, c, budget, i, st, formatted) ==
    CASE formatted.k = "raise" -> [Visit(st, i) EXCEPT !.raised = TRUE]
      [] formatted.k = "none" -> ScanFrom(lines, c, budget, i + 1, Visit(st, i))
      [] OTHER ->
            IF BudgetStop(st.total_chars, Len(formatted.s), budget, st.extracted_lines)
            THEN [st EXCEPT !.last_line_read = RollBack(i)]
            ELSE ScanFrom(lines, c, budget, i + 1, Accept(st, i, formatted.s))

\* Mutant: the scan does not skip the lines before the cursor
ScanFrom_FromTop(lines, c, budget, i, st) ==
    IF i > Len(lines) THEN st
    ELSE ScanLine(lines, c, budget, i, st, FormatLine(lines[i]))

\* `for i, line in enumerate(f, 1)` from line i on, api.py:227-260
ScanFrom(lines, c, budget, i, st) ==
    IF i > Len(lines) THEN st
    ELSE IF i < c THEN ScanFrom(lines, c, budget, i + 1, st)
    ELSE ScanLine(lines, c, budget, i, st, FormatLine(lines[i]))

\* `if cursor > total_lines`, api.py:211
BeyondFile(c, total_lines) == c > total_lines

\* Mutant: the beyond-file branch reports the file's last line as end_line
BeyondFileResult_Clamped(session_id, c, total_lines) ==
    [status |-> "ok", session_id |-> session_id, start_line |-> c,
     end_line |-> total_lines, total_lines |-> total_lines, content |-> <<>>,
     total_chars |-> 0, next_cursor |-> None, line_nos |-> <<>>]

\* The early return of the cursor-beyond-file branch, api.py:212-220
BeyondFileResult(session_id, c, total_lines) ==
    [status |-> "ok", session_id |-> session_id, start_line |-> c,
     end_line |-> c - 1, total_lines |-> total_lines, content |-> <<>>,
     total_chars |-> 0, next_cursor |-> None, line_nos |-> <<>>]

\* Mutant: resume after the first unread line
NextCursor_Skip(c, end_line, total_lines) ==
    IF end_line < total_lines THEN Some(end_line + 2) ELSE None

\* Mutant: the overlap without the max(cursor, ...)
NextCursor_NoMax(c, end_line, total_lines) ==
    IF end_line < total_lines THEN Some(end_line - LINE_OVERLAP + 1) ELSE None

\* Mutant: an overlap of LINE_OVERLAP + 1 lines
NextCursor_OffByOne(c, end_line, total_lines) ==
    IF end_line < total_lines THEN Some(Max(c, end_line - LINE_OVERLAP)) ELSE None

\* Mutant: `<=` for `<` in the end-of-file test
NextCursor_AtEnd(c, end_line, total_lines) ==
    IF end_line <= total_lines
    THEN Some(Max(c, end_line - LINE_OVERLAP + 1))
    ELSE None

\* Mutant: the next cursor is always past the cursor of the call
NextCursor_Always(c, end_line, total_lines) ==
    IF end_line < total_lines
    THEN Some(Max(c + 1, end_line - LINE_OVERLAP + 1))
    ELSE None

\* Calculate next cursor (with overlap), api.py:262-267
NextCursor(c, end_line, total_lines) ==
    IF end_line < total_lines
    THEN Some(Max(c, end_line - LINE_OVERLAP + 1))
    ELSE None

\* The return value after the scan, api.py:262-277
ScanResult(session_id, c, total_lines, st) ==
    IF st.raised THEN [status |-> "error"]
    ELSE [status |-> "ok", session_id |-> session_id, start_line |-> c,
          end_line |-> st.last_line_read, total_lines |-> total_lines,
          content |-> st.extracted_lines, total_chars |-> st.total_chars,
          next_cursor |-> NextCursor(c, st.last_line_read, total_lines),
          line_nos |-> st.line_nos]

\* extract from its cursor check on, api.py:210-277.  total_lines is what
\* _get_total_lines counted; lines is the file as the scan's own open() reads it.
ExtractFrom(session_id, c, budget, total_lines, lines) ==
    IF BeyondFile(c, total_lines) THEN BeyondFileResult(session_id, c, total_lines)
    ELSE ScanResult(session_id, c, total_lines, ScanFrom(lines, c, budget, 1, ScanStart(c)))

\* _get_processed_lines(session_id), api.py:83-89
GetProcessedLines(marks, session_id) ==
    IF session_id \in DOMAIN marks THEN marks[session_id] ELSE 0

\* _get_total_lines(file_path), api.py:91-96
GetTotalLines(files, session_id) ==
    IF session_id \in DOMAIN files THEN Len(files[session_id]) ELSE 0

\* Mutant: an omitted cursor always starts at line 1
EffectiveCursor_FromStart(marks, session_id, c) == IF c = None THEN 1 ELSE c[1]

\* Mutant: an omitted cursor starts at the watermark line itself
EffectiveCursor_AtMark(marks, session_id, c) ==
    IF c = None
    THEN (IF GetProcessedLines(marks, session_id) > 0
          THEN GetProcessedLines(marks, session_id)
          ELSE 1)
    ELSE c[1]

\* Mutant: a cursor at or below the watermark is moved past the watermark
EffectiveCursor_PastMark(marks, session_id, c) ==
    IF c = None
    THEN (IF GetProcessedLines(marks, session_id) > 0
          THEN GetProcessedLines(marks, session_id) + 1
          ELSE 1)
    ELSE Max(c[1], GetProcessedLines(marks, session_id) + 1)

\* Default cursor: start after last processed line, or line 1, api.py:205-208
EffectiveCursor(marks, session_id, c) ==
    IF c = None
    THEN (IF GetProcessedLines(marks, session_id) > 0
          THEN GetProcessedLines(marks, session_id) + 1
          ELSE 1)
    ELSE c[1]

\* Mutant: a transcript that does not exist is read as an empty one
Extract_MissingAsEmpty(files, marks, session_id, c, budget) ==
    ExtractFrom(session_id, EffectiveCursor(marks, session_id, c), budget,
                GetTotalLines(files, session_id),
                IF session_id \in DOMAIN files THEN files[session_id] ELSE <<>>)

\* DigestAPI.extract(session_id, cursor, char_budget) with no write between
\* its line count and its scan, api.py:175-277
Extract(files, marks, session_id, c, budget) ==
    IF session_id \notin DOMAIN files THEN [status |-> "not_found"]
    ELSE ExtractFrom(session_id, EffectiveCursor(marks, session_id, c), budget,
                     GetTotalLines(files, session_id), files[session_id])

-----------------------------------------------------------------------------
(* Transcript lines the model writes (tests/conftest.py message builders) *)

\* make_message(msg_type, content), conftest.py:51-56
MakeMessage(msg_type, content) ==
    JDict([type |-> JStr(msg_type), message |-> JDict([content |-> content])])

\* make_user_message("Hi"): formats to "[USER]: Hi", 10 characters
ShortLine == MakeMessage("user", JStr("Hi"))

\* make_assistant_message("Hello, world!"): "[ASSISTANT]: Hello, world!", 26 characters
LongLine ==
    MakeMessage("assistant", JList(<<JDict([type |-> JStr("text"), text |-> JStr("Hello, world!")])>>))

\* Lines other than ShortLine: a line that is not JSON, and the long message
VariedLines == {Garbage, LongLine}

PageLines == {ShortLine} \cup VariedLines

\* Char budgets of the paging caller: below every line, between the short and
\* the long line, and eleven short lines but not twelve
Budgets == {5, 25, 115}

\* Explicit cursors: positive line numbers, up to two past the longest transcript
Cursors == 1..(MaxLines + 2)

\* The session the paging caller reads
PagedSession == "a"

NumVaried(lines) == Cardinality({i \in 1..Len(lines) : lines[i] \in VariedLines})

-----------------------------------------------------------------------------
(* The paging caller of the tests (extract_test.py:382-398,               *)
(* integration_test.py:206-253): write the transcript, then call extract  *)
(* with a cursor and a budget, and again with the returned next_cursor    *)
(* while it is not None.                                                   *)

NoResult == [status |-> "none"]

NoCall == [op |-> "none"]

\* extract(session_id, cursor, char_budget) as the record of a call; `again`
\* tells the call that repeats the call before it
ExtractCall(session_id, c, budget, again) ==
    [op |-> "extract", session_id |-> session_id, cursor |-> c, char_budget |-> budget,
     again |-> again]

Init ==
    /\ raw = [s \in {PagedSession} |-> <<>>]
    /\ processed = [s \in {} |-> 0]
    /\ cursor = None
    /\ char_budget = DEFAULT_CHAR_BUDGET
    /\ first_cursor = 0
    /\ arg = 0
    /\ result = NoResult
    /\ prev = NoResult
    /\ seen = {}
    /\ tick = 0
    /\ call = NoCall
    /\ dirs = {"raw", "processed"}

\* write_transcript / append_to_transcript, conftest.py:103-114: one more line
AppendLine(line) ==
    /\ result.status = "none"
    /\ Len(raw[PagedSession]) < MaxLines
    /\ NumVaried(Append(raw[PagedSession], line)) <= MaxVaried
    /\ raw' = [raw EXCEPT ![PagedSession] = Append(@, line)]
    /\ UNCHANGED <<processed, cursor, char_budget, first_cursor, arg, result, prev, seen, tick,
                   call, dirs>>

\* The effect of one call of the paging loop with cursor c and budget b
PagedCall(c, b) ==
    /\ arg' = c
    /\ tick' = 1 - tick
    /\ call' = ExtractCall(PagedSession, Some(c), b, FALSE)
    /\ result' = Extract(raw, processed, PagedSession, Some(c), b)
    /\ prev' = result
    /\ cursor' = IF result'.status = "ok" THEN result'.next_cursor ELSE None
    /\ seen' = IF result'.status = "ok"
               THEN seen \cup {result'.line_nos[k] : k \in 1..Len(result'.line_nos)}
               ELSE seen
    /\ UNCHANGED <<raw, processed, dirs>>

\* First call: `cursor = 1` (any explicit cursor here), `char_budget=...`
ExtractFirst(c, b) ==
    /\ result.status = "none"
    /\ char_budget' = b
    /\ first_cursor' = c
    /\ PagedCall(c, b)

\* Later calls: `cursor = result.next_cursor` while it is not None
ExtractNext ==
    /\ result.status = "ok"
    /\ cursor # None
    /\ PagedCall(cursor[1], char_budget)
    /\ UNCHANGED <<char_budget, first_cursor>>

Next ==
    \/ \E line \in PageLines : AppendLine(line)
    \/ \E c \in Cursors, b \in Budgets : ExtractFirst(c, b)
    \/ ExtractNext

Spec == Init /\ [][Next]_vars

\* The paging loop keeps calling while it has a cursor
FairSpec == Spec /\ WF_vars(ExtractNext)

-----------------------------------------------------------------------------
(* Properties of the paging chain and of single extract calls *)

Lines == raw[PagedSession]

TotalLines == Len(Lines)

Called == result.status = "ok"

\* line i decodes to a user/assistant record with non-empty flattened content
Eligible(i) == FormatLine(Lines[i]).k = "str"

LineChars(i) == Len(FormatLine(Lines[i]).s)

EligibleIn(lo, hi) == {i \in lo..hi : Eligible(i)}

RECURSIVE SumChars(_)
SumChars(S) ==
    IF S = {} THEN 0
    ELSE LET i == CHOOSE x \in S : TRUE IN LineChars(i) + SumChars(S \ {i})

Least(S) == CHOOSE x \in S : \A y \in S : x <= y

\* eligible lines at or after the requested cursor whose formatted length pushes
\* the sum over the eligible lines from the cursor on above the budget, with an
\* eligible line before them
Overflowing ==
    {i \in EligibleIn(arg, TotalLines) :
        /\ EligibleIn(arg, i - 1) # {}
        /\ SumChars(EligibleIn(arg, i)) > char_budget}

\* C1: in a chain of extract calls (no intervening writes, same budget), each
\* call's endLine is strictly greater than the previous call's endLine.
C1_Progress ==
    (Called /\ prev.status = "ok") => result.end_line > prev.end_line

\* C2: following nextCursor from any first call reaches a call that returns
\* nextCursor = null.
C2_Terminates == Called ~> (cursor = None)

\* C3: when a chain has followed nextCursor to null, every eligible line from
\* the initial cursor to totalLines was in the content of some call.
C3_NoGaps ==
    (Called /\ cursor = None) =>
        \A i \in first_cursor..TotalLines : Eligible(i) => i \in seen

C3_Witness ==
    /\ Called /\ cursor = None
    /\ prev.status = "ok" /\ prev.end_line < TotalLines
    /\ Cardinality(seen) = TotalLines
    /\ first_cursor = 1

\* C4: a non-null nextCursor satisfies cursor <= nextCursor <= endLine + 1.
C4_CursorWindow ==
    (Called /\ result.next_cursor # None) =>
        /\ arg <= result.next_cursor[1]
        /\ result.next_cursor[1] <= result.end_line + 1

C4_Witness ==
    /\ Called /\ result.next_cursor # None
    /\ arg < result.next_cursor[1]
    /\ result.next_cursor[1] <= result.end_line

\* C5: a non-null nextCursor re-offers at most 10 already-read lines:
\* endLine - nextCursor + 1 <= 10.
C5_OverlapBound ==
    (Called /\ result.next_cursor # None) =>
        result.end_line - result.next_cursor[1] + 1 <= 10

C5_Witness ==
    /\ Called /\ result.next_cursor # None
    /\ result.end_line - result.next_cursor[1] + 1 = 10
    /\ Len(result.content) >= 2

\* C6: if the first eligible line at or after cursor is longer than charBudget,
\* it is returned whole as the sole element of content and totalChars > charBudget.
C6_Oversized ==
    (/\ Called
     /\ EligibleIn(arg, TotalLines) # {}
     /\ LineChars(Least(EligibleIn(arg, TotalLines))) > char_budget) =>
        /\ result.content = <<FormatLine(Lines[Least(EligibleIn(arg, TotalLines))]).s>>
        /\ result.total_chars > char_budget

C6_Witness ==
    /\ Called
    /\ Cardinality(EligibleIn(arg, TotalLines)) >= 2
    /\ LineChars(Least(EligibleIn(arg, TotalLines))) > char_budget
    /\ Len(result.content) = 1

\* C7: a result with two or more lines has totalChars <= charBudget, and
\* totalChars > charBudget implies content has exactly one line.
C7_BudgetRespected ==
    Called =>
        /\ Len(result.content) >= 2 => result.total_chars <= char_budget
        /\ result.total_chars > char_budget => Len(result.content) = 1

C7_Witness ==
    /\ Called
    /\ Len(result.content) >= 2
    /\ result.end_line < TotalLines
    /\ result.total_chars < char_budget

\* C8: when an eligible line i would push the running total above charBudget
\* and a line has already been accepted, the scan stops there: i is not in
\* content, endLine = i - 1, nextCursor is non-null and nextCursor <= i.
C8_BudgetStop ==
    (Called /\ Overflowing # {}) =>
        /\ Least(Overflowing) \notin {result.line_nos[k] : k \in 1..Len(result.line_nos)}
        /\ result.end_line = Least(Overflowing) - 1
        /\ result.next_cursor # None
        /\ result.next_cursor[1] <= Least(Overflowing)

C8_Witness ==
    /\ Called /\ Overflowing # {}
    /\ Len(result.content) >= 2
    /\ LineChars(Least(Overflowing)) > LineChars(Least(EligibleIn(arg, TotalLines)))

\* C9: for cursor > totalLines extract returns empty content, startLine = cursor,
\* endLine = cursor - 1, totalChars = 0 and nextCursor = null.
C9_BeyondFile ==
    (result.status # "none" /\ arg > TotalLines) =>
        /\ result.status = "ok"
        /\ result.content = <<>>
        /\ result.start_line = arg
        /\ result.end_line = arg - 1
        /\ result.total_chars = 0
        /\ result.next_cursor = None

C9_Witness ==
    /\ Called /\ arg > TotalLines + 1 /\ TotalLines >= 1
    /\ result.end_line = arg - 1

\* C10: for cursor <= totalLines, nextCursor is null iff endLine = totalLines,
\* and if endLine < totalLines then nextCursor = max(cursor, endLine - 10 + 1).
C10_NextCursor ==
    (Called /\ arg <= TotalLines) =>
        /\ result.next_cursor = None <=> result.end_line = TotalLines
        /\ result.end_line < TotalLines =>
              result.next_cursor =
                  <<IF arg >= result.end_line - 9 THEN arg ELSE result.end_line - 9>>

C10_Witness ==
    /\ Called /\ arg <= TotalLines
    /\ result.end_line < TotalLines
    /\ result.next_cursor = <<result.end_line - 9>>
    /\ arg < result.end_line - 9

-----------------------------------------------------------------------------
(* The watermark store and the listing, api.py:18-32, 79-96, 148-173,     *)
(* 279-302                                                                 *)

MaxStoreLines == 2   \* longest transcript of the store specifications

\* Session ids of the store specifications: one is a prefix of the other
Sessions == {"a", "a-b"}

\* The characters of a session id
Chars(session_id) ==
    CASE session_id = "a" -> <<"a">>
      [] session_id = "a-b" -> <<"a", "-", "b">>

\* ord(ch) of the characters of the file names
Ord(ch) ==
    CASE ch = "-" -> 45
      [] ch = "." -> 46
      [] ch = "a" -> 97
      [] ch = "b" -> 98
      [] ch = "j" -> 106
      [] ch = "l" -> 108
      [] ch = "n" -> 110
      [] ch = "o" -> 111
      [] ch = "s" -> 115

\* The name of raw_dir / f"{session_id}.jsonl", api.py:198, as characters
FileName(session_id) == Chars(session_id) \o <<".", "j", "s", "o", "n", "l">>

RECURSIVE StrLess(_, _)
\* x < y for two Python strings (by code point, a proper prefix first)
StrLess(x, y) ==
    IF y = <<>> THEN FALSE
    ELSE IF x = <<>> THEN TRUE
    ELSE IF Ord(Head(x)) # Ord(Head(y)) THEN Ord(Head(x)) < Ord(Head(y))
    ELSE StrLess(Tail(x), Tail(y))

\* the first file of sorted(...): the one whose name is below every other name
FirstFile(S) ==
    CHOOSE s \in S : \A o \in S \ {s} : StrLess(FileName(s), FileName(o))

RECURSIVE SortedFiles(_)
\* sorted(self.raw_dir.glob("*.jsonl")), api.py:161, as the files' stems
SortedFiles(S) ==
    IF S = {} THEN <<>> ELSE <<FirstFile(S)>> \o SortedFiles(S \ {FirstFile(S)})

\* self.processed_dir.mkdir(parents=True, exist_ok=True), api.py:79-81
EnsureProcessedDir(d) == d \cup {"processed"}

\* Mutant: the listing does not read the watermark
Status_NoWatermark(session_id, files, marks) ==
    [session_id |-> session_id, processed_lines |-> 0,
     total_lines |-> GetTotalLines(files, session_id)]

\* TranscriptStatus(session_id, processed_lines, total_lines), api.py:165-169
Status(session_id, files, marks) ==
    [session_id |-> session_id,
     processed_lines |-> GetProcessedLines(marks, session_id),
     total_lines |-> GetTotalLines(files, session_id)]

\* Mutant: the difference without the max(0, ...)
NewLines_Signed(status) == status.total_lines - status.processed_lines

\* TranscriptStatus.new_lines, api.py:26-28
NewLines(status) == Max(0, status.total_lines - status.processed_lines)

\* Mutant: a transcript with nothing new still counts as having new content
HasNewContent_OrEqual(status) == NewLines(status) >= 0

\* TranscriptStatus.has_new_content, api.py:30-32
HasNewContent(status) == NewLines(status) > 0

\* The statuses of the files in order, api.py:160-169
Statuses(order, files, marks) ==
    [k \in 1..Len(order) |-> Status(order[k], files, marks)]

\* list_transcripts()'s return value, api.py:157-173
ListTranscripts(d, files, marks) ==
    IF "raw" \notin d THEN <<>>
    ELSE SelectSeq(Statuses(SortedFiles(DOMAIN files), files, marks), HasNewContent)

\* Mutant: the new count is merged with the stored one, the larger wins
WriteMark_Merge(marks, session_id, total) ==
    (session_id :> Max(GetProcessedLines(marks, session_id), total)) @@ marks

\* Mutant: the line after the last one is written
WriteMark_Next(marks, session_id, total) == (session_id :> total + 1) @@ marks

\* processed_file.write_text(json.dumps({"lineNumber": total})), api.py:299-300
WriteMark(marks, session_id, total) == (session_id :> total) @@ marks

\* MarkResult(session_id, lines_marked), api.py:302, or FileNotFoundError, api.py:295-296
MarkResult(files, session_id) ==
    IF session_id \notin DOMAIN files THEN [status |-> "not_found"]
    ELSE [status |-> "ok", session_id |-> session_id,
          lines_marked |-> GetTotalLines(files, session_id)]

\* Mutant: marking one transcript marks every transcript at its line count
MarksAfterMark_All(files, marks, session_id) ==
    IF session_id \notin DOMAIN files THEN marks
    ELSE [s \in DOMAIN files \cup DOMAIN marks |->
             IF s \in DOMAIN files THEN GetTotalLines(files, s) ELSE marks[s]]

\* Mutant: a mark of a transcript that does not exist stores a watermark of 0
MarksAfterMark_Zero(files, marks, session_id) ==
    IF session_id \notin DOMAIN files THEN WriteMark(marks, session_id, 0)
    ELSE WriteMark(marks, session_id, GetTotalLines(files, session_id))

\* The watermarks after mark_processed(session_id), api.py:292-300
MarksAfterMark(files, marks, session_id) ==
    IF session_id \notin DOMAIN files THEN marks
    ELSE WriteMark(marks, session_id, GetTotalLines(files, session_id))

\* The variables of the paging caller, which the store specifications leave alone
paging == <<cursor, char_budget, first_cursor, arg, seen, tick>>

\* Cursor arguments of extract: omitted, or a positive line number
StoreCursors == {None} \cup {Some(n) : n \in 1..(MaxStoreLines + 1)}

\* Char budgets: one short line but not two, and the default
StoreBudgets == {15, DEFAULT_CHAR_BUDGET}

\* lineNumber values a watermark file is given from outside the API
FixtureLines == 0..(MaxStoreLines + 1)

\* A fresh base directory: DigestAPI(base_dir), api.py:68-77
StoreInit ==
    /\ raw = <<>>
    /\ processed = <<>>
    /\ dirs = {}
    /\ call = NoCall
    /\ result = NoResult
    /\ prev = NoResult
    /\ cursor = None
    /\ char_budget = DEFAULT_CHAR_BUDGET
    /\ first_cursor = 0
    /\ arg = 0
    /\ seen = {}
    /\ tick = 0

\* The raw_dir fixture, conftest.py:33-38
MakeRawDir ==
    /\ "raw" \notin dirs
    /\ dirs' = dirs \cup {"raw"}
    /\ call' = NoCall
    /\ result' = NoResult
    /\ prev' = NoResult
    /\ UNCHANGED <<raw, processed, paging>>

\* write_transcript(raw_dir, session_id, []), conftest.py:103-107
CreateTranscript(session_id) ==
    /\ "raw" \in dirs
    /\ session_id \notin DOMAIN raw
    /\ raw' = (session_id :> <<>>) @@ raw
    /\ call' = NoCall
    /\ result' = NoResult
    /\ prev' = NoResult
    /\ UNCHANGED <<processed, dirs, paging>>

\* append_to_transcript(raw_dir, session_id, [line]), conftest.py:110-114
StoreAppend(session_id, line) ==
    /\ session_id \in DOMAIN raw
    /\ Len(raw[session_id]) < MaxStoreLines
    /\ raw' = [raw EXCEPT ![session_id] = Append(@, line)]
    /\ call' = NoCall
    /\ result' = NoResult
    /\ prev' = NoResult
    /\ UNCHANGED <<processed, dirs, paging>>

\* Mutant: extract leaves an empty watermark file for a transcript that has none
ExtractStep_Touches(session_id, c, budget, again) ==
    /\ dirs' = EnsureProcessedDir(dirs)
    /\ call' = ExtractCall(session_id, c, budget, again)
    /\ result' = Extract(raw, processed, session_id, c, budget)
    /\ processed' = IF session_id \in DOMAIN raw /\ session_id \notin DOMAIN processed
                    THEN WriteMark(processed, session_id, 0)
                    ELSE processed
    /\ UNCHANGED <<raw, paging>>

\* Mutant: extract stores the last line it read as the watermark
ExtractStep_Marks(session_id, c, budget, again) ==
    /\ dirs' = EnsureProcessedDir(dirs)
    /\ call' = ExtractCall(session_id, c, budget, again)
    /\ result' = Extract(raw, processed, session_id, c, budget)
    /\ processed' = IF result'.status = "ok"
                    THEN WriteMark(processed, session_id, result'.end_line)
                    ELSE processed
    /\ UNCHANGED <<raw, paging>>

\* One call extract(session_id, cursor, char_budget), api.py:175-277
ExtractStep(session_id, c, budget, again) ==
    /\ dirs' = EnsureProcessedDir(dirs)
    /\ call' = ExtractCall(session_id, c, budget, again)
    /\ result' = Extract(raw, processed, session_id, c, budget)
    /\ UNCHANGED <<raw, processed, paging>>

\* A call of extract
StoreExtract(session_id, c, budget) ==
    /\ ExtractStep(session_id, c, budget, FALSE)
    /\ prev' = NoResult

\* The same call once more: `result2 = extract("session", cursor=2)` after
\* `result1 = extract("session", cursor=2)`, integration_test.py:404-413
StoreExtractAgain ==
    /\ call.op = "extract"
    /\ ExtractStep(call.session_id, call.cursor, call.char_budget, TRUE)
    /\ prev' = result

\* mark_processed(session_id), api.py:279-302
MarkProcessed(session_id) ==
    /\ dirs' = EnsureProcessedDir(dirs)
    /\ call' = [op |-> "mark", session_id |-> session_id]
    /\ result' = MarkResult(raw, session_id)
    /\ processed' = MarksAfterMark(raw, processed, session_id)
    /\ prev' = NoResult
    /\ UNCHANGED <<raw, paging>>

\* Mutant: list_transcripts forgets every watermark
ListCall_Clears ==
    /\ dirs' = EnsureProcessedDir(dirs)
    /\ call' = [op |-> "list"]
    /\ result' = [status |-> "ok", statuses |-> ListTranscripts(dirs, raw, processed)]
    /\ processed' = <<>>
    /\ prev' = NoResult
    /\ UNCHANGED <<raw, paging>>

\* Mutant: list_transcripts fails when the raw directory does not exist
ListCall_MissingFails ==
    /\ dirs' = EnsureProcessedDir(dirs)
    /\ call' = [op |-> "list"]
    /\ result' = IF "raw" \notin dirs THEN [status |-> "not_found"]
                  ELSE [status |-> "ok", statuses |-> ListTranscripts(dirs, raw, processed)]
    /\ prev' = NoResult
    /\ UNCHANGED <<raw, processed, paging>>

\* list_transcripts(), api.py:148-173
ListCall ==
    /\ dirs' = EnsureProcessedDir(dirs)
    /\ call' = [op |-> "list"]
    /\ result' = [status |-> "ok", statuses |-> ListTranscripts(dirs, raw, processed)]
    /\ prev' = NoResult
    /\ UNCHANGED <<raw, processed, paging>>

\* The mark_processed fixture of the tests, conftest.py:117-120: a watermark
\* file written around the API, with any line number
FixtureMark(session_id, line_number) ==
    /\ processed' = WriteMark(processed, session_id, line_number)
    /\ dirs' = dirs \cup {"processed"}
    /\ call' = NoCall
    /\ result' = NoResult
    /\ prev' = NoResult
    /\ UNCHANGED <<raw, paging>>

\* Append-only transcripts, watermarks written by mark_processed only
StoreNext ==
    \/ MakeRawDir
    \/ \E s \in Sessions : CreateTranscript(s)
    \/ \E s \in Sessions : StoreAppend(s, ShortLine)
    \/ \E s \in Sessions, c \in StoreCursors, b \in StoreBudgets : StoreExtract(s, c, b)
    \/ StoreExtractAgain
    \/ \E s \in Sessions : MarkProcessed(s)
    \/ ListCall

StoreSpec == StoreInit /\ [][StoreNext]_vars

\* The same, with watermark files also written around the API
LooseNext ==
    \/ StoreNext
    \/ \E s \in Sessions, n \in FixtureLines : FixtureMark(s, n)

LooseSpec == StoreInit /\ [][LooseNext]_vars

-----------------------------------------------------------------------------
(* Transcripts of lines of every shape, read by extract *)

\* A record of the given type whose "message" field is the given value
WithMessage(msg_type, message) == JDict([type |-> JStr(msg_type), message |-> message])

\* A message whose content is one block
OneBlock(msg_type, block) == MakeMessage(msg_type, JList(<<JDict(block)>>))

\* Lines the scan skips, by every `continue` of api.py:234-248, and the
\* plain user message
SkippedLines ==
    { Garbage,                                            \* not JSON
      JNum,                                               \* JSON, not an object
      MakeMessage("system", JStr("S")),                   \* a type that is not a role
      JDict([type |-> JStr("user")]),                     \* no "message"
      MakeMessage("user", JStr("")),                      \* empty content
      MakeMessage("user", JNum),                          \* content neither str nor list
      OneBlock("user", [type |-> JStr("image")]) }        \* a block of an unknown type

\* Lines whose "message" is not an object, or whose blocks carry a number
\* where the flattener joins strings
OddLines ==
    { WithMessage("user", JNull),
      WithMessage("user", JStr("x")),
      OneBlock("user", [type |-> JStr("text"), text |-> JNum]),
      OneBlock("user", [type |-> JStr("tool_result"),
                        content |-> JList(<<JDict([text |-> JNum])>>)]) }

ShapeLines == {ShortLine, LongLine} \cup SkippedLines \cup OddLines

\* One transcript, empty, in existing directories (the raw_dir and
\* processed_dir fixtures, conftest.py:33-45)
ShapeInit ==
    /\ raw = (PagedSession :> <<>>)
    /\ processed = <<>>
    /\ dirs = {"raw", "processed"}
    /\ call = NoCall
    /\ result = NoResult
    /\ prev = NoResult
    /\ cursor = None
    /\ char_budget = DEFAULT_CHAR_BUDGET
    /\ first_cursor = 0
    /\ arg = 0
    /\ seen = {}
    /\ tick = 0

ShapeNext ==
    \/ \E line \in ShapeLines : StoreAppend(PagedSession, line)
    \/ \E c \in StoreCursors, b \in StoreBudgets : StoreExtract(PagedSession, c, b)

ShapeSpec == ShapeInit /\ [][ShapeNext]_vars

-----------------------------------------------------------------------------
(* Properties of the store, of the listing and of extract as one call.    *)
(* After a call of the API, `call` holds its arguments, `result` what it  *)
(* returned, and the files are as the call left them.                      *)

Extracted == call.op = "extract" /\ result.status = "ok"

\* C11: an extract call without a cursor starts at the stored watermark + 1
\* when the transcript has a watermark and at line 1 when it has none; a
\* call with a cursor starts at that cursor.
C11_DefaultCursor ==
    Extracted =>
        result.start_line =
            IF call.cursor # None THEN call.cursor[1]
            ELSE IF call.session_id \in DOMAIN processed
                 THEN processed[call.session_id] + 1
                 ELSE 1

\* a call without a cursor, on a marked transcript, that returned the line
\* after the watermark
C11_Witness ==
    /\ Extracted
    /\ call.cursor = None
    /\ call.session_id \in DOMAIN processed
    /\ processed[call.session_id] = 1
    /\ result.start_line = 2
    /\ result.line_nos = <<2>>

\* C12: lines the scan skips count as read.  A call that returns no content
\* has read to the end of the file (end_line = total_lines, next_cursor
\* None); a call that ends before the end of the file was stopped by the
\* budget at an eligible line, and a call that ends at the end of the file
\* has no next cursor.
C12_SkippedAdvance ==
    (Extracted /\ result.start_line <= result.total_lines) =>
        /\ result.content = <<>> =>
              result.end_line = result.total_lines /\ result.next_cursor = None
        /\ result.end_line < result.total_lines =>
              /\ result.content # <<>>
              /\ Eligible(result.end_line + 1)
              /\ result.total_chars + LineChars(result.end_line + 1) > call.char_budget
        /\ result.end_line = result.total_lines => result.next_cursor = None

\* a call from line 1 over two skipped lines: nothing returned, all read
C12_Witness ==
    /\ Extracted
    /\ result.start_line = 1
    /\ result.total_lines = 2
    /\ result.content = <<>>
    /\ result.end_line = 2
    /\ result.next_cursor = None

\* C13: extract on a transcript that exists returns a result, whatever the
\* lines contain.
C13_NeverRaises ==
    (call.op = "extract" /\ call.session_id \in DOMAIN raw) => result.status = "ok"

\* C14: extract and mark_processed on a session id without a transcript
\* file fail with NotFound, whether or not a watermark is stored for it.
C14_NotFound ==
    (call.op \in {"extract", "mark"} /\ call.session_id \notin DOMAIN raw) =>
        result.status = "not_found"

\* extract without a cursor on an id that has a watermark and no transcript
C14_Witness ==
    /\ call.op = "extract"
    /\ call.cursor = None
    /\ call.session_id \notin DOMAIN raw
    /\ call.session_id \in DOMAIN processed
    /\ processed[call.session_id] > 0
    /\ result.status = "not_found"

\* C15: an extract call, whether it returns content, an empty beyond-file
\* result or NotFound, leaves every transcript and every stored watermark
\* as they were.
C15_PureRead ==
    [][call'.op = "extract" => (raw' = raw /\ processed' = processed)]_vars

\* extract has returned content of a transcript that has no watermark,
\* while another id has one
C15_Witness ==
    /\ Extracted
    /\ result.content # <<>>
    /\ call.session_id \notin DOMAIN processed
    /\ processed # <<>>

\* C16: an extract call that repeats the call before it, with the same
\* session id, cursor and char budget and nothing written in between,
\* returns the same result (content, start_line, end_line, total_lines,
\* total_chars, next_cursor).
C16_Idempotent ==
    (call.op = "extract" /\ call.again) => result = prev

\* a repeated call without a cursor that returned content up to a budget stop
C16_Witness ==
    /\ Extracted
    /\ call.again
    /\ call.cursor = None
    /\ result.content # <<>>
    /\ result.next_cursor # None
    /\ prev.status = "ok"

\* C17: mark_processed on an existing transcript replaces the stored
\* watermark of that transcript, whatever it was, by the transcript's
\* total_lines, returns that count as lines_marked, and touches nothing else.
C17_MarkOverwrites ==
    [][(call'.op = "mark" /\ call'.session_id \in DOMAIN raw) =>
          /\ processed' = (call'.session_id :> Len(raw[call'.session_id])) @@ processed
          /\ result'.status = "ok"
          /\ result'.lines_marked = Len(raw[call'.session_id])
          /\ processed'[call'.session_id] = Len(raw'[call'.session_id])
          /\ raw' = raw]_vars

\* a transcript of one line has been marked, and the watermark is 1
C17_Witness ==
    /\ call.op = "mark"
    /\ result.status = "ok"
    /\ result.lines_marked = 1
    /\ processed[call.session_id] = 1

\* C18: while transcripts only grow and only mark_processed writes
\* watermarks, every stored watermark belongs to a transcript and is at most
\* its current total_lines, and at most the total_lines an extract call
\* reports for it.
C18_WatermarkBound ==
    /\ \A s \in DOMAIN processed : s \in DOMAIN raw /\ processed[s] <= Len(raw[s])
    /\ (Extracted /\ call.session_id \in DOMAIN processed) =>
           processed[call.session_id] <= result.total_lines

\* a transcript marked at one line has grown to two, and extract reports two
C18_Witness ==
    /\ Extracted
    /\ call.session_id \in DOMAIN processed
    /\ processed[call.session_id] = 1
    /\ result.total_lines = 2

\* the stored watermark of s differs between the two states of a step
MarkChanged(s) ==
    \/ (s \in DOMAIN processed') # (s \in DOMAIN processed)
    \/ GetProcessedLines(processed', s) # GetProcessedLines(processed, s)

\* C19: over list_transcripts, extract, mark_processed and appends, no
\* step lowers a transcript's stored watermark, and a step that changes it
\* is a mark_processed call on that transcript.
C19_NeverDecremented ==
    [][\A s \in Sessions :
          /\ GetProcessedLines(processed', s) >= GetProcessedLines(processed, s)
          /\ (s \in DOMAIN processed) => (s \in DOMAIN processed')
          /\ MarkChanged(s) => (call'.op = "mark" /\ call'.session_id = s)]_vars

\* both transcripts are marked, one of them at two lines, and a listing followed
C19_Witness ==
    /\ call.op = "list"
    /\ DOMAIN processed = Sessions
    /\ \E s \in Sessions : processed[s] = 2

Listed == result.statuses

IsListed(s) == \E k \in 1..Len(Listed) : Listed[k].session_id = s

\* C20: list_transcripts returns one status for each transcript file whose
\* total_lines is above its watermark (0 without a watermark file) and none
\* for any other; each status carries the watermark as processed_lines, the
\* file's total_lines, and new_lines = max(0, total - processed).
C20_ListExact ==
    call.op = "list" =>
        /\ \A s \in DOMAIN raw :
              IsListed(s) <=> Len(raw[s]) > GetProcessedLines(processed, s)
        /\ \A k, j \in 1..Len(Listed) :
              Listed[k].session_id = Listed[j].session_id => k = j
        /\ \A k \in 1..Len(Listed) :
              /\ Listed[k].session_id \in DOMAIN raw
              /\ Listed[k].processed_lines =
                     GetProcessedLines(processed, Listed[k].session_id)
              /\ Listed[k].total_lines = Len(raw[Listed[k].session_id])
              /\ NewLines(Listed[k]) = Listed[k].total_lines - Listed[k].processed_lines
              /\ NewLines(Listed[k]) > 0

\* a listing of one partly processed transcript, next to an empty transcript
\* and nothing else
C20_Witness ==
    /\ call.op = "list"
    /\ DOMAIN raw = Sessions
    /\ Len(Listed) = 1
    /\ Listed[1].processed_lines = 1
    /\ Listed[1].total_lines = 2
    /\ \E s \in Sessions : raw[s] = <<>>

\* C21: the statuses list_transcripts returns are in ascending order of
\* session id, also when one id is a prefix of another.
C21_SortedById ==
    call.op = "list" =>
        \A k, j \in 1..Len(Listed) :
            k < j => StrLess(Chars(Listed[k].session_id), Chars(Listed[j].session_id))

\* the stored watermark of transcript s is above its number of lines
Stale(s) == s \in DOMAIN processed /\ processed[s] > Len(raw[s])

\* C22: a watermark above the transcript's total_lines is tolerated:
\* list_transcripts returns normally, counts zero new lines for that
\* transcript and leaves it out, and extract without a cursor returns empty
\* content and no next cursor.
C22_StaleWatermark ==
    /\ call.op = "list" =>
          /\ result.status = "ok"
          /\ \A s \in DOMAIN raw :
                Stale(s) => (~IsListed(s) /\ NewLines(Status(s, raw, processed)) = 0)
    /\ (call.op = "extract" /\ call.cursor = None /\ call.session_id \in DOMAIN raw
            /\ Stale(call.session_id)) =>
          /\ result.status = "ok"
          /\ result.content = <<>>
          /\ result.total_chars = 0
          /\ result.next_cursor = None

\* a listing while a transcript of one line has a larger watermark
C22_Witness ==
    /\ call.op = "list"
    /\ \E s \in DOMAIN raw : Stale(s) /\ Len(raw[s]) = 1 /\ ~IsListed(s)

\* C23: a listing that directly follows mark_processed(id) does not hold
\* id; once k >= 1 lines were appended to a transcript marked at n lines, a
\* listing holds id with processed_lines = n, total_lines = n + k and
\* new_lines = k; the next mark_processed(id) takes it out again.
C23_MarkAppendList ==
    [][call'.op = "list" =>
          \A s \in Sessions :
              /\ (call.op = "mark" /\ call.session_id = s /\ result.status = "ok") =>
                     ~IsListed(s)'
              /\ (s \in DOMAIN processed /\ Len(raw[s]) > processed[s]) =>
                     \E k \in 1..Len(Listed') :
                         /\ Listed'[k].session_id = s
                         /\ Listed'[k].processed_lines = processed[s]
                         /\ Listed'[k].total_lines = Len(raw[s])
                         /\ NewLines(Listed'[k]) = Len(raw[s]) - processed[s]]_vars

\* a listing that holds a transcript marked at one line and grown to two
C23_Witness ==
    /\ call.op = "list"
    /\ \E k \in 1..Len(Listed) :
          /\ Listed[k].processed_lines = 1
          /\ Listed[k].total_lines = 2
          /\ Listed[k].session_id \in DOMAIN processed

\* C24: mark_processed(id) changes nothing of any other transcript: its
\* watermark, its listing status and what extract returns for it, with any
\* cursor and budget, are the same after the call as before it.
C24_Independence ==
    [][call'.op = "mark" =>
          \A o \in Sessions \ {call'.session_id} :
              /\ (o \in DOMAIN processed') = (o \in DOMAIN processed)
              /\ GetProcessedLines(processed', o) = GetProcessedLines(processed, o)
              /\ Status(o, raw', processed') = Status(o, raw, processed)
              /\ \A c \in StoreCursors, b \in StoreBudgets :
                     Extract(raw', processed', o, c, b) = Extract(raw, processed, o, c, b)]_vars

\* one transcript was marked while the other, of two lines, stays marked at one
C24_Witness ==
    /\ call.op = "mark"
    /\ result.status = "ok"
    /\ \E o \in DOMAIN raw \ {call.session_id} :
          /\ Len(raw[o]) = 2
          /\ o \in DOMAIN processed
          /\ processed[o] = 1

-----------------------------------------------------------------------------
(* A transcript that grows while it is read.  extract counts the lines    *)
(* (api.py:203) and later opens the file again to scan it (api.py:227);   *)
(* a writer that appends whole lines runs beside it.  A line appended     *)
(* while the scan runs is read by it or not: both are runs of this        *)
(* specification, with the append before or after ScanLines.               *)

MaxGrowLines == 4   \* longest transcript of the growing specification

GrowLines == {ShortLine, LongLine, Garbage}

\* extract between its line count and its scan
ScanCall(session_id, c, budget, total_lines) ==
    [op |-> "scan", session_id |-> session_id, cursor |-> c, char_budget |-> budget,
     total_lines |-> total_lines]

GrowInit ==
    /\ raw = (PagedSession :> <<>>)
    /\ processed = <<>>
    /\ dirs = {"raw", "processed"}
    /\ call = NoCall
    /\ result = NoResult
    /\ prev = NoResult
    /\ cursor = None
    /\ char_budget = DEFAULT_CHAR_BUDGET
    /\ first_cursor = 0
    /\ arg = 0
    /\ seen = {}
    /\ tick = 0

\* Mutant: the writer puts the new line in front of the others
WriterAppend_Front(line) ==
    /\ Len(raw[PagedSession]) < MaxGrowLines
    /\ raw' = [raw EXCEPT ![PagedSession] = <<line>> \o @]
    /\ UNCHANGED <<processed, dirs, call, result, prev, paging>>

\* The writer: append_to_transcript(raw_dir, session_id, [line]),
\* conftest.py:110-114, at any moment
WriterAppend(line) ==
    /\ Len(raw[PagedSession]) < MaxGrowLines
    /\ raw' = [raw EXCEPT ![PagedSession] = Append(@, line)]
    /\ UNCHANGED <<processed, dirs, call, result, prev, paging>>

\* extract up to `total_lines = self._get_total_lines(file_path)`, api.py:197-203
CountLines(c, budget) ==
    /\ call.op # "scan"
    /\ dirs' = EnsureProcessedDir(dirs)
    /\ call' = ScanCall(PagedSession, c, budget, GetTotalLines(raw, PagedSession))
    /\ result' = NoResult
    /\ prev' = NoResult
    /\ UNCHANGED <<raw, processed, paging>>

\* The next call of a chain, with the next_cursor and the budget of the call
\* before it, up to the line count: integration_test.py:386-402
ResumeCount ==
    /\ Extracted
    /\ result.next_cursor # None
    /\ dirs' = EnsureProcessedDir(dirs)
    /\ call' = ScanCall(PagedSession, result.next_cursor, call.char_budget,
                        GetTotalLines(raw, PagedSession))
    /\ prev' = result
    /\ result' = NoResult
    /\ UNCHANGED <<raw, processed, paging>>

\* extract from the default cursor on, api.py:205-277, on the file as it is now
ScanLines ==
    /\ call.op = "scan"
    /\ result' = ExtractFrom(call.session_id,
                             EffectiveCursor(processed, call.session_id, call.cursor),
                             call.char_budget, call.total_lines, raw[call.session_id])
    /\ call' = ExtractCall(call.session_id, call.cursor, call.char_budget, FALSE)
    /\ UNCHANGED <<raw, processed, dirs, prev, paging>>

GrowNext ==
    \/ \E line \in GrowLines : WriterAppend(line)
    \/ \E c \in StoreCursors, b \in StoreBudgets : CountLines(c, b)
    \/ ResumeCount
    \/ ScanLines

GrowSpec == GrowInit /\ [][GrowNext]_vars

\* C25: lines appended after extract counted total_lines are not seen by
\* its scan: no returned line is numbered above the counted total_lines,
\* and end_line <= total_lines.
C25_ScanBounded ==
    (Extracted /\ result.start_line <= result.total_lines) =>
        /\ result.end_line <= result.total_lines
        /\ \A k \in 1..Len(result.line_nos) : result.line_nos[k] <= result.total_lines

IsShown(line) == line \in {ShortLine, LongLine}

ShownAs(line) == IF line = ShortLine THEN "[USER]: Hi" ELSE "[ASSISTANT]: Hello, world!"

\* the lines start_line..end_line of the transcript the last call read
LinesRead == SubSeq(raw[call.session_id], result.start_line, result.end_line)

\* C27: the content of an extraction is, in transcript order, the line
\* "[<ROLE>]: <flattened content>" of each line in start_line..end_line that
\* is a user or assistant record with non-empty content, and nothing else:
\* no line of another type, no skipped line, no line before the cursor.
C27_Content ==
    (Extracted /\ result.start_line <= result.total_lines) =>
        result.content =
            [k \in 1..Len(SelectSeq(LinesRead, IsShown)) |->
                 ShownAs(SelectSeq(LinesRead, IsShown)[k])]

\* a call from line 2 that returned the assistant message alone, the user
\* message of line 1 being before the cursor
C27_Witness ==
    /\ Extracted
    /\ result.start_line = 2
    /\ result.end_line = 2
    /\ raw[call.session_id][1] = ShortLine
    /\ result.content = <<"[ASSISTANT]: Hello, world!">>

-----------------------------------------------------------------------------
(* Transcripts whose first line is a user record with a payload of a      *)
(* given shape, followed by the plain user message                        *)

\* a key the dict does not have
Absent == [t |-> "absent"]

\* the dict with the keys of f that are not Absent
Fields(f) == JDict([k \in {x \in DOMAIN f : f[x] # Absent} |-> f[k]])

TextBlock(s) == JDict([type |-> JStr("text"), text |-> JStr(s)])

ThinkingBlock(s) == JDict([type |-> JStr("thinking"), thinking |-> JStr(s)])

ImageBlock == JDict([type |-> JStr("image")])

\* {"type": "tool_result", "content": ..., "is_error": ...}, conftest.py:77-86
ToolResultBlock(content, is_error) ==
    Fields([type |-> JStr("tool_result"), content |-> content, is_error |-> is_error])

\* "content" of a tool_result block: absent, not text, text, and lists of
\* text blocks, of other blocks, of strings and of a block whose text is a number
ToolContents ==
    { Absent, JNull, JNum, JStr(""), JStr("ok"),
      JList(<<>>),
      JList(<<TextBlock("a")>>),
      JList(<<TextBlock("a"), TextBlock("b")>>),
      JList(<<ImageBlock, TextBlock("a")>>),
      JList(<<TextBlock("a"), ImageBlock>>),
      JList(<<JStr("s"), TextBlock("a")>>),
      JList(<<JDict([text |-> JNum])>>) }

ErrorFlags == {Absent, JBool(TRUE), JBool(FALSE)}

ToolResultBlocks == {ToolResultBlock(c, e) : c \in ToolContents, e \in ErrorFlags}

\* Elements of a content list that are none of the four block types: an
\* unknown type, no type, a type that is not a string, and elements that
\* are not dicts
OtherBlocks ==
    { ImageBlock, JDict([text |-> JStr("zz")]), JDict([type |-> JNum]) }

OtherElements == { JNum, JNull, JList(<<JStr("x")>>), JStr("s") }

\* Blocks that render to nothing
EmptyBlocks ==
    { TextBlock(""), ThinkingBlock(""), JDict([type |-> JStr("text")]), JStr("") }

\* Payloads with nothing to show: no content key, null, "", [] and lists of
\* empty blocks
EmptyPayloads ==
    {Absent, JNull, JStr(""), JList(<<>>), JList(<<TextBlock(""), ThinkingBlock("")>>)}
        \cup {JList(<<e>>) : e \in EmptyBlocks}

BlockPayloads ==
    EmptyPayloads
        \cup {JStr("Hi"), JList(<<TextBlock("A")>>)}
        \cup {JList(<<b>>) : b \in ToolResultBlocks}
        \cup {JList(<<x>>) : x \in OtherBlocks \cup OtherElements}
        \cup {JList(<<x, TextBlock("A")>>) : x \in OtherBlocks \cup OtherElements}
        \cup {JList(<<TextBlock("A"), x>>) : x \in OtherBlocks \cup OtherElements}

\* {"type": "user", "message": {"content": payload}}
BlockLine(payload) == WithMessage("user", Fields([content |-> payload]))

BlockInit ==
    /\ raw \in {(PagedSession :> <<BlockLine(p), ShortLine>>) : p \in BlockPayloads}
    /\ processed = <<>>
    /\ dirs = {"raw", "processed"}
    /\ call = NoCall
    /\ result = NoResult
    /\ prev = NoResult
    /\ cursor = None
    /\ char_budget = DEFAULT_CHAR_BUDGET
    /\ first_cursor = 0
    /\ arg = 0
    /\ seen = {}
    /\ tick = 0

BlockNext == \E c \in StoreCursors, b \in StoreBudgets : StoreExtract(PagedSession, c, b)

BlockSpec == BlockInit /\ [][BlockNext]_vars

-----------------------------------------------------------------------------
(* Properties of the flattener, on the first line of the transcript *)

\* the payload of the first line: the value of "content", or Absent
Payload ==
    IF "content" \in DOMAIN raw[PagedSession][1].f.message.f
    THEN raw[PagedSession][1].f.message.f.content
    ELSE Absent

\* the last call read the transcript from its first line
ReadFromTop == Extracted /\ result.start_line = 1

\* the payload is one tool_result block that has a "content"
IsToolOutcome ==
    /\ Payload.t = "list"
    /\ Len(Payload.items) = 1
    /\ Payload.items[1] \in ToolResultBlocks
    /\ "content" \in DOMAIN Payload.items[1].f

Outcome == Payload.items[1].f

OutcomePrefix ==
    IF "is_error" \in DOMAIN Outcome /\ Outcome.is_error = JBool(TRUE)
    THEN "[TOOL ERROR]"
    ELSE "[TOOL RESULT]"

\* the elements of a sequence that carry a text
TextBearing(items) ==
    SelectSeq(items, LAMBDA c : c.t = "dict" /\ "text" \in DOMAIN c.f /\ c.f.text.t = "str")

TextsIn(items) == [k \in 1..Len(TextBearing(items)) |-> TextBearing(items)[k].f.text.s]

OutcomeBody ==
    CASE Outcome.content.t = "str" -> ": " \o Outcome.content.s
      [] Outcome.content.t = "list" -> ": " \o JoinStr(TextsIn(Outcome.content.items), " ")
      [] OTHER -> ""

\* C28: a tool_result block is shown as "[TOOL ERROR]" when its is_error is
\* true and "[TOOL RESULT]" otherwise, followed by ": " and the text when
\* its content is a string, by ": " and the texts of the text-bearing
\* elements joined by one space when it is a list, and by nothing otherwise.
C28_ToolOutcome ==
    (ReadFromTop /\ IsToolOutcome) =>
        /\ result.content # <<>>
        /\ result.content[1] = "[USER]: " \o OutcomePrefix \o OutcomeBody

\* C29: a record whose payload is absent, null, an empty string, an empty
\* list or a list of blocks that all render empty gives no formatted line:
\* the scan skips it, and its characters are not counted, so the message
\* after it is returned whole under every budget.
C29_NothingToShow ==
    (ReadFromTop /\ Payload \in EmptyPayloads) =>
        /\ result.content = <<"[USER]: Hi">>
        /\ result.line_nos = <<2>>
        /\ result.total_chars = 10
        /\ result.end_line = 2
        /\ result.next_cursor = None

\* under the small budget, a line of an empty text and an empty thinking
\* block was skipped and the next message returned
C29_Witness ==
    /\ ReadFromTop
    /\ Payload = JList(<<TextBlock(""), ThinkingBlock("")>>)
    /\ call.char_budget < 20
    /\ result.line_nos = <<2>>

\* the payload is the element x alone, or x next to the text block "A"
Alone(x) == Payload = JList(<<x>>)

WithText(x) == Payload \in {JList(<<x, TextBlock("A")>>), JList(<<TextBlock("A"), x>>)}

\* C30, as stated: an element of a list payload that is not a text,
\* tool_use, tool_result or thinking block (unknown type, no type, or not a
\* block at all) adds nothing to the flattened content and raises nothing:
\* alone it leaves the line skipped, next to a text block "A" the line is
\* "[USER]: A".
C30_Unrecognized ==
    \A x \in OtherBlocks \cup OtherElements :
        /\ (call.op = "extract" /\ (Alone(x) \/ WithText(x))) => result.status = "ok"
        /\ (ReadFromTop /\ Alone(x)) => result.line_nos = <<2>>
        /\ (ReadFromTop /\ WithText(x)) => result.content[1] = "[USER]: A"

\* C30, amended: the same for every such element that is not a string; an
\* element that is a string is added to the content as it is, on a line of
\* its own.
C30_UnrecognizedButStrings ==
    /\ \A x \in {y \in OtherBlocks \cup OtherElements : y.t # "str"} :
          /\ (call.op = "extract" /\ (Alone(x) \/ WithText(x))) => result.status = "ok"
          /\ (ReadFromTop /\ Alone(x)) => result.line_nos = <<2>>
          /\ (ReadFromTop /\ WithText(x)) => result.content[1] = "[USER]: A"
    /\ (ReadFromTop /\ Alone(JStr("s"))) => result.content[1] = "[USER]: s"
    /\ (ReadFromTop /\ Payload = JList(<<JStr("s"), TextBlock("A")>>)) =>
          result.content[1] = "[USER]: s\nA"
    /\ (ReadFromTop /\ Payload = JList(<<TextBlock("A"), JStr("s")>>)) =>
          result.content[1] = "[USER]: A\ns"

\* a block without a type, in front of the text block, left no trace
C30_Witness ==
    /\ ReadFromTop
    /\ Payload = JList(<<JDict([text |-> JStr("zz")]), TextBlock("A")>>)
    /\ result.content[1] = "[USER]: A"

-----------------------------------------------------------------------------
(* The incremental workflow of integration_test.py:558-587 beside a       *)
(* writer: extract with the default cursor, follow next_cursor until it   *)
(* is None, then mark_processed; and again when the transcript has grown. *)
(* `seen` holds the line numbers of the ranges start_line..end_line the   *)
(* extract calls have returned so far.                                     *)

FlowLines == {ShortLine, LongLine}

\* The first extract of a round, `api.extract("session")`, up to its line count
FlowStart(budget) ==
    /\ call.op \in {"none", "mark"}
    /\ CountLines(None, budget)

\* The scan of an extract call of the workflow, api.py:205-277
FlowScan ==
    /\ call.op = "scan"
    /\ result' = ExtractFrom(call.session_id,
                             EffectiveCursor(processed, call.session_id, call.cursor),
                             call.char_budget, call.total_lines, raw[call.session_id])
    /\ call' = ExtractCall(call.session_id, call.cursor, call.char_budget, FALSE)
    /\ seen' = IF result'.status = "ok"
               THEN seen \cup (result'.start_line..result'.end_line)
               ELSE seen
    /\ UNCHANGED <<raw, processed, dirs, prev, cursor, char_budget, first_cursor, arg, tick>>

\* `api.mark_processed("session")` once next_cursor is None
FlowMark ==
    /\ Extracted
    /\ result.next_cursor = None
    /\ MarkProcessed(call.session_id)

FlowNext ==
    \/ \E line \in FlowLines : WriterAppend(line)
    \/ \E b \in StoreBudgets : FlowStart(b)
    \/ ResumeCount
    \/ FlowScan
    \/ FlowMark

FlowSpec == GrowInit /\ [][FlowNext]_vars

\* the sum of the lengths of the strings of a sequence
RECURSIVE SumLen(_)
SumLen(strs) == IF strs = <<>> THEN 0 ELSE Len(Head(strs)) + SumLen(Tail(strs))

\* C31: in every extract result, start_line is the effective cursor (the
\* cursor given, or the watermark + 1, or 1 without a watermark) and
\* total_chars is the sum of the lengths of the formatted lines in content,
\* 0 when content is empty.
C31_ResultFields ==
    Extracted =>
        /\ result.start_line =
              IF call.cursor # None THEN call.cursor[1]
              ELSE IF GetProcessedLines(processed, call.session_id) > 0
                   THEN processed[call.session_id] + 1
                   ELSE 1
        /\ result.total_chars = SumLen(result.content)
        /\ result.content = <<>> => result.total_chars = 0

\* a call without a cursor on a transcript marked at line 1 that returned
\* the two messages after the watermark, 10 and 26 characters long
C31_Witness ==
    /\ Extracted
    /\ call.cursor = None
    /\ GetProcessedLines(processed, call.session_id) = 1
    /\ result.start_line = 2
    /\ result.content = <<"[USER]: Hi", "[ASSISTANT]: Hello, world!">>
    /\ result.total_chars = 36

\* C34: no line is marked processed without having been offered.  In the
\* workflow beside a writer, every line number up to the watermark lies in
\* the range start_line..end_line of an extract call made before the mark.
C34_MarkedWasOffered ==
    \A i \in 1..GetProcessedLines(processed, PagedSession) : i \in seen

\* C32: while the raw directory has never been created, list_transcripts
\* returns an empty sequence, and extract and mark_processed fail with
\* FileNotFoundError.
C32_MissingStore ==
    "raw" \notin dirs =>
        /\ call.op = "list" => result = [status |-> "ok", statuses |-> <<>>]
        /\ call.op \in {"extract", "mark"} => result.status = "not_found"

\* list_transcripts has returned in a base directory without a raw directory
C32_Witness ==
    /\ "raw" \notin dirs
    /\ "processed" \in dirs
    /\ call.op = "list"
    /\ result.status = "ok"
    /\ result.statuses = <<>>

\* C33: a next_cursor that is not None is above the cursor of the call if
\* and only if end_line - cursor >= 10; otherwise it equals the cursor, and the
\* paging caller's next call has the cursor of the call that returned it.
C33_AdvanceIff ==
    (Called /\ result.next_cursor # None) =>
        /\ result.next_cursor[1] > arg <=> result.end_line - arg >= 10
        /\ result.end_line - arg < 10 =>
              /\ result.next_cursor[1] = arg
              /\ cursor = Some(arg)

\* a call that read eleven lines and returned the line after its cursor
C33_Witness ==
    /\ Called /\ result.next_cursor # None
    /\ result.end_line - arg = 10
    /\ result.next_cursor[1] = arg + 1

\* C35: with no write during the call, a call with 1 <= cursor <= total_lines
\* has cursor <= end_line <= total_lines, a call with cursor > total_lines has
\* end_line = cursor - 1, and end_line is never below cursor - 1.
C35_RangeBounds ==
    Called =>
        /\ (1 <= arg /\ arg <= TotalLines) =>
              (arg <= result.end_line /\ result.end_line <= TotalLines)
        /\ arg > TotalLines => result.end_line = arg - 1
        /\ result.end_line >= arg - 1

\* a call from a line after the first that read its cursor line alone and
\* stopped at the budget before the end of the transcript
C35_Witness ==
    /\ Called
    /\ 1 < arg /\ arg < TotalLines
    /\ result.end_line = arg
    /\ result.line_nos = <<arg>>

\* C36: a next_cursor that is not None is at most the total_lines of the
\* call that returned it, and on the growing transcript the call made at it
\* does not start beyond the file and reads at least one line.
C36_Resumable ==
    /\ (Extracted /\ result.next_cursor # None) =>
           result.next_cursor[1] <= result.total_lines
    /\ (Extracted /\ prev.status = "ok") =>
           /\ result.start_line <= result.total_lines
           /\ result.end_line >= result.start_line

\* a call resumed at a next_cursor on the line before the last one counted
C36_Witness ==
    /\ Extracted
    /\ prev.status = "ok"
    /\ prev.next_cursor = Some(prev.total_lines - 1)
    /\ result.end_line >= result.start_line
    /\ result.line_nos # <<>>

\* the ids list_transcripts returns in the state as it is
WouldList(s) ==
    \E k \in 1..Len(ListTranscripts(dirs, raw, processed)) :
        ListTranscripts(dirs, raw, processed)[k].session_id = s

\* C37: listing and default extraction agree.  For a transcript with any
\* watermark >= 0, list_transcripts returns it if and only if extract without
\* a cursor reads at least one line (end_line >= start_line); for an existing
\* transcript that is not listed, extract returns empty content and
\* next_cursor None.
C37_ListAgrees ==
    (Extracted /\ call.cursor = None) =>
        /\ WouldList(call.session_id) <=> result.end_line >= result.start_line
        /\ ~WouldList(call.session_id) =>
              (result.content = <<>> /\ result.next_cursor = None)

\* a default extract on a listed transcript marked at line 1 of 2
C37_Witness ==
    /\ Extracted /\ call.cursor = None
    /\ WouldList(call.session_id)
    /\ GetProcessedLines(processed, call.session_id) = 1
    /\ result.start_line = 2
    /\ result.end_line = 2

\* C39: a mark_processed that fails with FileNotFoundError creates and
\* changes no watermark, of that session id or of any other.
C39_FailedMarkKeeps ==
    [][(call'.op = "mark" /\ result'.status = "not_found") =>
           /\ processed' = processed
           /\ \A s \in Sessions :
                  GetProcessedLines(processed', s) = GetProcessedLines(processed, s)]_vars

\* mark_processed has failed for an id whose watermark file, written around
\* the API, still holds 2, beside the other transcript's own watermark
C39_Witness ==
    /\ call.op = "mark"
    /\ result.status = "not_found"
    /\ call.session_id \notin DOMAIN raw
    /\ GetProcessedLines(processed, call.session_id) = 2
    /\ \E s \in DOMAIN raw : GetProcessedLines(processed, s) = 1

-----------------------------------------------------------------------------
(* One transcript read twice with the same cursor and budget, the         *)
(* watermark file rewritten between the two calls (the mark_processed     *)
(* fixture, conftest.py:117-120): the two calls run in states that differ *)
(* in the stored watermark only.                                           *)

\* The arguments of the call before, kept while the watermark is rewritten
RemarkedCall(session_id, c, budget) ==
    [op |-> "remark", session_id |-> session_id, cursor |-> c, char_budget |-> budget]

\* mark_processed(processed_dir, session_id, line_number) after an extract
\* call, with a line number that is not the stored one
Remark(line_number) ==
    /\ call.op = "extract"
    /\ ~call.again
    /\ result.status = "ok"
    /\ line_number # GetProcessedLines(processed, call.session_id)
    /\ processed' = WriteMark(processed, call.session_id, line_number)
    /\ call' = RemarkedCall(call.session_id, call.cursor, call.char_budget)
    /\ UNCHANGED <<raw, dirs, result, prev, paging>>

\* The call before, once more, in the state with the other watermark
ExtractRemarked ==
    /\ call.op = "remark"
    /\ ExtractStep(call.session_id, call.cursor, call.char_budget, TRUE)
    /\ prev' = result

RemarkNext ==
    \/ \E line \in GrowLines : StoreAppend(PagedSession, line)
    \/ \E n \in FixtureLines : FixtureMark(PagedSession, n)
    \/ \E c \in StoreCursors, b \in StoreBudgets : StoreExtract(PagedSession, c, b)
    \/ \E n \in FixtureLines : Remark(n)
    \/ ExtractRemarked

RemarkSpec == ShapeInit /\ [][RemarkNext]_vars

\* C38: an explicit cursor makes extract independent of the watermark.  Of
\* two calls with the same explicit cursor and budget, in states that differ
\* only in the stored watermark of the transcript, the second returns what
\* the first returned.
C38_CursorIgnoresMark ==
    (call.op = "extract" /\ call.again /\ call.cursor # None) => result = prev

\* the second of two calls at cursor 2, made behind a watermark of 3 that
\* was not there for the first, returning the second line again
C38_Witness ==
    /\ call.op = "extract" /\ call.again
    /\ call.cursor = Some(2)
    /\ GetProcessedLines(processed, call.session_id) = 3
    /\ result.status = "ok"
    /\ result.line_nos = <<2>>
    /\ prev = result

====
